---------------------------- MODULE Spec2Model ----------------------------
(***************************************************************************)
(* Model of the NFT minting form (NFTMinter) and of its attribute editor   *)
(* (AttributeList).                                                        *)
(*                                                                         *)
(* NFTMinter is a React component.  Its state lives in useState cells; an  *)
(* event handler runs to completion (JavaScript is single threaded) and    *)
(* React re-renders before the next event is dispatched, so every handler  *)
(* and every continuation of the async handleMint (the code between two    *)
(* awaits) is one atomic action.  handleMint is a closure of the render in *)
(* which the click happened: name, symbol, description, image, useCore and *)
(* wallet inside it are the values of that render and stay the same for    *)
(* the whole invocation, whatever the user edits meanwhile.                *)
(***************************************************************************)
EXTENDS Naturals, Sequences, FiniteSets, TLC

(***************************************************************************)
(* Bounds of the model.                                                    *)
(***************************************************************************)
\* handleMint invocations (clicks on "Mint NFT") in one behaviour
MaxMints == 2
\* handleMint invocations and length of the attribute list when the mint form
\* is explored together with its attribute list (SpecForm)
MaxFormMints == 1
MaxFormAttrs == 1
\* length of the attribute list when AttributeList is explored alone (SpecAttr)
MaxAttrs == 3

(***************************************************************************)
(* Input domains.  "" is the initial value of a text field; null is the    *)
(* initial value of the image cell.                                        *)
(***************************************************************************)
null == "null"
\* e.target.files[0] of an empty FileList
undefined == "undefined"
Names == {"", "Ape"}
Symbols == {"", "APE"}
Descriptions == {"", "art"}
Files == {"a.png"}
\* trait_type / value strings typed into an attribute row
AttrTexts == {"", "hat"}
AttrKeys == {"trait_type", "value"}

VARIABLES
    publicKey,        \* useWallet().publicKey is non-null
    wallet,           \* useWallet().wallet is non-null
    name,
    symbol,
    description,
    image,
    isMinting,
    transactionLink,
    metadataUri,
    imageUrl,
    useCore,
    attributes,       \* the attributes prop of AttributeList
    runs,             \* the handleMint invocations made so far, in order
    lastOp            \* the last AttributeList operation and its argument

formVars == <<name, symbol, description, image>>
resultVars == <<transactionLink, metadataUri, imageUrl>>
walletVars == <<publicKey, wallet>>
mintVars == <<publicKey, wallet, name, symbol, description, image, isMinting,
              transactionLink, metadataUri, imageUrl, useCore, runs>>
vars == <<publicKey, wallet, name, symbol, description, image, isMinting,
          transactionLink, metadataUri, imageUrl, useCore, attributes, runs,
          lastOp>>

NoOp == [op |-> "none", index |-> 0, before |-> <<>>]

(***************************************************************************)
(* Initial state: the useState initialisers.                               *)
(***************************************************************************)
InitForm ==
    /\ name = ""
    /\ symbol = ""
    /\ description = ""
    /\ image = null
    /\ isMinting = FALSE
    /\ transactionLink = ""
    /\ metadataUri = ""
    /\ imageUrl = ""
    /\ useCore = FALSE
    /\ runs = <<>>

Init ==
    /\ InitForm
    /\ publicKey = FALSE
    /\ wallet = FALSE
    /\ attributes = <<>>
    /\ lastOp = NoOp


(***************************************************************************)
(* Notifications (toast).                                                  *)
(***************************************************************************)
ToastWalletNotConnected ==
    [title |-> "Wallet not connected",
     description |-> "Please connect your wallet first",
     variant |-> "destructive"]

ToastMissingInformation ==
    [title |-> "Missing information",
     description |-> "Please fill in all fields",
     variant |-> "destructive"]

ToastError ==
    [title |-> "Error minting NFT",
     description |-> "Please try again",
     variant |-> "destructive"]

ToastSuccess(mintAddress) ==
    [title |-> "NFT minted successfully!",
     description |-> "Mint address: " \o mintAddress]

(***************************************************************************)
(* Derived artifacts: template strings and the base58 serializer.          *)
(***************************************************************************)
GatewayUrl(hash) == "https://gateway.pinata.cloud/ipfs/" \o hash

ExplorerUrl(signature) ==
    "https://explorer.solana.com/tx/" \o signature \o "?cluster=devnet"

Base58Alphabet ==
    <<"1", "2", "3", "4", "5", "6", "7", "8", "9", "A", "B", "C", "D", "E",
      "F", "G", "H", "J", "K", "L", "M", "N", "P", "Q", "R", "S", "T", "U",
      "V", "W", "X", "Y", "Z", "a", "b", "c", "d", "e", "f", "g", "h", "i",
      "j", "k", "m", "n", "o", "p", "q", "r", "s", "t", "u", "v", "w", "x",
      "y", "z">>

RECURSIVE BytesToNat(_)
BytesToNat(bytes) ==
    IF bytes = <<>> THEN 0
    ELSE 256 * BytesToNat(SubSeq(bytes, 1, Len(bytes) - 1)) + bytes[Len(bytes)]

RECURSIVE Base58Digits(_)
Base58Digits(n) ==
    IF n = 0 THEN ""
    ELSE Base58Digits(n \div 58) \o Base58Alphabet[(n % 58) + 1]

RECURSIVE LeadingOnes(_)
LeadingOnes(bytes) ==
    IF bytes # <<>> /\ bytes[1] = 0 THEN "1" \o LeadingOnes(Tail(bytes))
    ELSE ""

\* base58.deserialize(bytes)[0]
Base58(bytes) == LeadingOnes(bytes) \o Base58Digits(BytesToNat(bytes))

\* generateSigner(umi): a fresh key pair for every invocation
GenerateSigner(i) == "asset" \o Base58(<<i>>)

\* response.data.IpfsHash of upload k (1: image, 2: metadata) of invocation
\* i.  The pinning service is content addressed; the contents uploaded by
\* different invocations are taken to differ, so every upload gets an
\* identifier of its own.
IpfsHash(i, k) == "Qm" \o Base58(<<i, k>>)

\* tx.signature (a byte string) of the transaction of invocation i: the
\* transaction is signed by a freshly generated key, so no two transactions
\* share a signature.
TxSignature(i) == <<i, 200>>

(***************************************************************************)
(* External calls, as the arguments they are issued with.                  *)
(***************************************************************************)
PinFileCall(file) ==
    [kind |-> "pinFileToIPFS",
     url |-> "https://api.pinata.cloud/pinning/pinFileToIPFS",
     file |-> file]

PinJsonCall(doc) ==
    [kind |-> "pinJSONToIPFS",
     url |-> "https://api.pinata.cloud/pinning/pinJSONToIPFS",
     body |-> doc]

CoreCreateCall(signer, doc, uri) ==
    [kind |-> "create", plugin |-> "mplCore", asset |-> signer,
     name |-> doc.name, uri |-> uri]

CreateNftCall(signer, doc, uri) ==
    [kind |-> "createNft", plugin |-> "mplTokenMetadata", mint |-> signer,
     sellerFeeBasisPoints |-> 0, name |-> doc.name, uri |-> uri]

OnChain == {"create", "createNft"}

(***************************************************************************)
(* Form field handlers and the wallet adapter.                             *)
(***************************************************************************)
\* The wallet adapter context changes: connect, disconnect, select.  The
\* component reads publicKey and wallet as two separately nullable values.
WalletChange ==
    /\ \E pk \in BOOLEAN, w \in BOOLEAN :
          /\ <<pk, w>> # <<publicKey, wallet>>
          /\ publicKey' = pk
          /\ wallet' = w
    /\ UNCHANGED <<formVars, resultVars, isMinting, useCore, attributes, runs,
                   lastOp>>

setName ==
    /\ \E v \in Names : v # name /\ name' = v
    /\ UNCHANGED <<walletVars, symbol, description, image, resultVars,
                   isMinting, useCore, attributes, runs, lastOp>>

setSymbol ==
    /\ \E v \in Symbols : v # symbol /\ symbol' = v
    /\ UNCHANGED <<walletVars, name, description, image, resultVars,
                   isMinting, useCore, attributes, runs, lastOp>>

setDescription ==
    /\ \E v \in Descriptions : v # description /\ description' = v
    /\ UNCHANGED <<walletVars, name, symbol, image, resultVars, isMinting,
                   useCore, attributes, runs, lastOp>>

\* e.target.files is a FileList here; its first entry is a file, or
\* undefined when the list is empty.
handleImageChange ==
    /\ \E f \in Files \cup {undefined} : f # image /\ image' = f
    /\ UNCHANGED <<walletVars, name, symbol, description, resultVars,
                   isMinting, useCore, attributes, runs, lastOp>>

\* The two standard buttons; both are disabled while publicKey is null.
StandardDisabled == ~publicKey

setUseCore ==
    /\ ~StandardDisabled
    /\ \E b \in BOOLEAN : b # useCore /\ useCore' = b
    /\ UNCHANGED <<walletVars, formVars, resultVars, isMinting, attributes,
                   runs, lastOp>>

(***************************************************************************)
(* handleMint.                                                             *)
(***************************************************************************)
\* Mutant of MintDisabled: the button is not disabled while minting.
MintDisabledWithoutFlag == ~publicKey

\* disabled= of the "Mint NFT" button
MintDisabled == ~publicKey \/ isMinting

\* JavaScript falsiness of the image cell
NoImage(img) == img \in {null, undefined}

\* Mutant of Validate: the image is not among the required fields.
ValidateWithoutImage ==
    IF ~publicKey \/ ~wallet THEN "wallet"
    ELSE IF name = "" \/ symbol = "" \/ description = ""
         THEN "fields"
         ELSE "ok"

\* The two early returns: which one is taken, or "ok".
Validate ==
    IF ~publicKey \/ ~wallet THEN "wallet"
    ELSE IF name = "" \/ symbol = "" \/ description = "" \/ NoImage(image)
         THEN "fields"
         ELSE "ok"

\* One invocation of handleMint: the values its closure holds, its position
\* (pc), its local constants, and the external calls and notifications it
\* has issued.  attributes is the attribute list at the click; handleMint
\* does not read it.
NewRun ==
    [pc |-> "start", outcome |-> "pending",
     name |-> name, symbol |-> symbol, description |-> description,
     image |-> image, useCore |-> useCore, attributes |-> attributes,
     imageUrl |-> "", metadata |-> <<>>, metadataUri |-> "",
     assetOrMint |-> "", transactionLink |-> "", calls |-> <<>>,
     toasts |-> <<>>]

Awaiting == {"awaitImage", "awaitMetadata", "awaitTx"}

\* An early return with its notification; the closure is dropped.
Reject(r, toast) ==
    [r EXCEPT !.pc = "done", !.outcome = "rejected",
              !.name = "", !.symbol = "", !.description = "",
              !.image = null, !.useCore = FALSE, !.attributes = <<>>,
              !.toasts = Append(@, toast)]

\* Up to the first await: the image upload is issued.
StartMint(r) ==
    [r EXCEPT !.pc = "awaitImage",
              !.calls = Append(@, PinFileCall(r.image))]

\* A click on the "Mint NFT" button.
handleMint(maxMints) ==
    /\ Len(runs) < maxMints
    /\ ~MintDisabled
    /\ LET v == Validate IN
         \/ /\ v = "wallet"
            /\ runs' = Append(runs, Reject(NewRun, ToastWalletNotConnected))
            /\ UNCHANGED isMinting
         \/ /\ v = "fields"
            /\ runs' = Append(runs, Reject(NewRun, ToastMissingInformation))
            /\ UNCHANGED isMinting
         \/ /\ v = "ok"
            /\ runs' = Append(runs, StartMint(NewRun))
            /\ isMinting' = TRUE
    /\ UNCHANGED <<walletVars, formVars, resultVars, useCore, attributes,
                   lastOp>>

\* const metadata = { name, description, symbol, image: imageUrl }
Metadata(r, url) ==
    [name |-> r.name, description |-> r.description, symbol |-> r.symbol,
     image |-> url]

\* From the image upload's answer to the second await: the metadata upload
\* is issued.
AfterImageUpload(r, hash) ==
    LET url == GatewayUrl(hash)
        doc == Metadata(r, url)
    IN  [r EXCEPT !.imageUrl = url,
                  !.metadata = <<doc>>,
                  !.calls = Append(@, PinJsonCall(doc)),
                  !.pc = "awaitMetadata"]

\* Mutant of UsesCore: the flag is read when the transaction is built, not
\* when the button was clicked.
UsesCoreNow(r) == useCore

\* useCore ? ... : ... inside the invocation: the closure's useCore
UsesCore(r) == r.useCore

\* From the metadata upload's answer to the third await: Umi is set up, a
\* signer generated and one creation transaction sent.
AfterMetadataUpload(r, i, hash) ==
    LET uri == GatewayUrl(hash)
        signer == GenerateSigner(i)
        doc == r.metadata[1]
    IN  [r EXCEPT !.metadataUri = uri,
                  !.assetOrMint = signer,
                  !.calls = Append(@, IF UsesCore(r)
                                      THEN CoreCreateCall(signer, doc, uri)
                                      ELSE CreateNftCall(signer, doc, uri)),
                  !.pc = "awaitTx"]

\* From the confirmation to the end of the try block.
AfterSendAndConfirm(r, txSignature) ==
    [r EXCEPT !.transactionLink = ExplorerUrl(Base58(txSignature)),
              !.toasts = Append(@, ToastSuccess(r.assetOrMint)),
              !.pc = "done",
              !.outcome = "success"]

\* Mutant of ClearedForm: setImage(null) is missing.
ClearedFormKeepingImage ==
    [name |-> "", symbol |-> "", description |-> "", image |-> image]

\* The form cells after setName(""), setSymbol(""), setDescription(""),
\* setImage(null).
ClearedForm ==
    [name |-> "", symbol |-> "", description |-> "", image |-> null]

\* Mutant of Catch: the failed call is issued once more instead of giving up.
CatchAndRetry(r) ==
    [r EXCEPT !.calls = Append(@, @[Len(@)])]

\* Mutant of Catch: the notification names the call that failed.
CatchNamingStep(r) ==
    [r EXCEPT !.toasts = Append(@, [ToastError EXCEPT
                                       !.description = r.calls[Len(r.calls)].kind]),
              !.pc = "done",
              !.outcome = "failed"]

\* catch (error) { toast(...) }
Catch(r) ==
    [r EXCEPT !.toasts = Append(@, ToastError),
              !.pc = "done",
              !.outcome = "failed"]

\* Mutant of Finally: setIsMinting(false) is the last statement of the try
\* block, so a failed invocation leaves the flag set.
FinallyOnlyOnSuccess(r) == r.outcome # "success"

\* finally { setIsMinting(false) }: the flag once invocation r has settled
Finally(r) == FALSE

ImageUploadResolved(i) ==
    /\ i \in DOMAIN runs
    /\ runs[i].pc = "awaitImage"
    /\ LET r == AfterImageUpload(runs[i], IpfsHash(i, 1)) IN
         /\ runs' = [runs EXCEPT ![i] = r]
         /\ imageUrl' = r.imageUrl
    /\ UNCHANGED <<walletVars, formVars, transactionLink, metadataUri,
                   isMinting, useCore, attributes, lastOp>>

MetadataUploadResolved(i) ==
    /\ i \in DOMAIN runs
    /\ runs[i].pc = "awaitMetadata"
    /\ LET r == AfterMetadataUpload(runs[i], i, IpfsHash(i, 2)) IN
         /\ runs' = [runs EXCEPT ![i] = r]
         /\ metadataUri' = r.metadataUri
    /\ UNCHANGED <<walletVars, formVars, transactionLink, imageUrl, isMinting,
                   useCore, attributes, lastOp>>

SendAndConfirmResolved(i) ==
    /\ i \in DOMAIN runs
    /\ runs[i].pc = "awaitTx"
    /\ LET r == AfterSendAndConfirm(runs[i], TxSignature(i)) IN
         /\ runs' = [runs EXCEPT ![i] = r]
         /\ transactionLink' = r.transactionLink
         /\ name' = ClearedForm.name
         /\ symbol' = ClearedForm.symbol
         /\ description' = ClearedForm.description
         /\ image' = ClearedForm.image
         /\ isMinting' = Finally(r)
    /\ UNCHANGED <<walletVars, metadataUri, imageUrl, useCore, attributes,
                   lastOp>>

\* The awaited call of invocation i throws: catch, then finally.
Thrown(i) ==
    /\ LET r == Catch(runs[i]) IN
         /\ runs' = [runs EXCEPT ![i] = r]
         /\ isMinting' = Finally(r)
    /\ UNCHANGED <<walletVars, formVars, resultVars, useCore, attributes,
                   lastOp>>

ImageUploadRejected(i) ==
    /\ i \in DOMAIN runs
    /\ runs[i].pc = "awaitImage"
    /\ Thrown(i)

MetadataUploadRejected(i) ==
    /\ i \in DOMAIN runs
    /\ runs[i].pc = "awaitMetadata"
    /\ Thrown(i)

SendAndConfirmRejected(i) ==
    /\ i \in DOMAIN runs
    /\ runs[i].pc = "awaitTx"
    /\ Thrown(i)

(***************************************************************************)
(* AttributeList.  Indices are JavaScript's: the first row has index 0.    *)
(***************************************************************************)
EmptyAttribute == [trait_type |-> "", value |-> ""]

Attribute == [trait_type : AttrTexts, value : AttrTexts]

\* [...attributes, { trait_type: "", value: "" }]
AddAttribute(attrs) == Append(attrs, EmptyAttribute)

\* Mutant of Keep: the callback compares with < and drops the rows after
\* index too.
KeepBefore(i, index) == i < index

\* The callback of filter: (_, i) => i !== index
Keep(i, index) == i # index

\* attributes.filter(callback), from position i on
RECURSIVE FilterFrom(_, _, _)
FilterFrom(attrs, i, index) ==
    IF i >= Len(attrs) THEN <<>>
    ELSE (IF Keep(i, index) THEN <<attrs[i + 1]>> ELSE <<>>)
         \o FilterFrom(attrs, i + 1, index)

RemoveAttribute(attrs, index) == FilterFrom(attrs, 0, index)

\* updatedAttributes[index][key] = value on a copy of the array
ChangeAttribute(attrs, index, key, value) ==
    [attrs EXCEPT ![index + 1][key] = value]

handleAddAttribute(maxLen) ==
    /\ Len(attributes) < maxLen
    /\ attributes' = AddAttribute(attributes)
    /\ lastOp' = [op |-> "add", index |-> 0, before |-> attributes]
    /\ UNCHANGED mintVars

\* The trash button of row index.
handleRemoveAttribute ==
    /\ \E index \in 0 .. Len(attributes) - 1 :
          /\ attributes' = RemoveAttribute(attributes, index)
          /\ lastOp' = [op |-> "remove", index |-> index,
                        before |-> attributes]
    /\ UNCHANGED mintVars

\* Typing in one of the two inputs of row index.
handleAttributeChange ==
    /\ \E index \in 0 .. Len(attributes) - 1, key \in AttrKeys,
          value \in AttrTexts :
          /\ attributes[index + 1][key] # value
          /\ attributes' = ChangeAttribute(attributes, index, key, value)
          /\ lastOp' = [op |-> "change", index |-> index,
                        before |-> attributes]
    /\ UNCHANGED mintVars

(***************************************************************************)
(* Specifications.                                                         *)
(***************************************************************************)
Next ==
    \/ WalletChange
    \/ setName
    \/ setSymbol
    \/ setDescription
    \/ handleImageChange
    \/ setUseCore
    \/ handleMint(MaxMints)
    \/ \E i \in 1 .. MaxMints : ImageUploadResolved(i)
    \/ \E i \in 1 .. MaxMints : ImageUploadRejected(i)
    \/ \E i \in 1 .. MaxMints : MetadataUploadResolved(i)
    \/ \E i \in 1 .. MaxMints : MetadataUploadRejected(i)
    \/ \E i \in 1 .. MaxMints : SendAndConfirmResolved(i)
    \/ \E i \in 1 .. MaxMints : SendAndConfirmRejected(i)

\* NFTMinter.
Spec == Init /\ [][Next]_vars

\* Every awaited external call eventually returns or throws.
CallsSettle ==
    \A i \in 1 .. MaxMints :
        /\ WF_vars(ImageUploadResolved(i) \/ ImageUploadRejected(i))
        /\ WF_vars(MetadataUploadResolved(i) \/ MetadataUploadRejected(i))
        /\ WF_vars(SendAndConfirmResolved(i) \/ SendAndConfirmRejected(i))

FairSpec == Spec /\ CallsSettle

\* AttributeList alone, started on any attribute list of up to MaxAttrs rows.
InitAttr ==
    /\ InitForm
    /\ publicKey = FALSE
    /\ wallet = FALSE
    /\ attributes \in UNION {[1 .. n -> Attribute] : n \in 0 .. MaxAttrs}
    /\ lastOp = NoOp

NextAttr ==
    \/ handleAddAttribute(MaxAttrs)
    \/ handleRemoveAttribute
    \/ handleAttributeChange

SpecAttr == InitAttr /\ [][NextAttr]_vars

\* The mint form holding the attribute list that AttributeList edits.
NextForm ==
    \/ WalletChange
    \/ setName
    \/ setSymbol
    \/ setDescription
    \/ handleImageChange
    \/ setUseCore
    \/ handleAddAttribute(MaxFormAttrs)
    \/ handleRemoveAttribute
    \/ handleAttributeChange
    \/ handleMint(MaxFormMints)
    \/ \E i \in 1 .. MaxFormMints : ImageUploadResolved(i)
    \/ \E i \in 1 .. MaxFormMints : ImageUploadRejected(i)
    \/ \E i \in 1 .. MaxFormMints : MetadataUploadResolved(i)
    \/ \E i \in 1 .. MaxFormMints : MetadataUploadRejected(i)
    \/ \E i \in 1 .. MaxFormMints : SendAndConfirmResolved(i)
    \/ \E i \in 1 .. MaxFormMints : SendAndConfirmRejected(i)

SpecForm == Init /\ [][NextForm]_vars

(***************************************************************************)
(* Properties.                                                             *)
(***************************************************************************)
InFlight == {i \in DOMAIN runs : runs[i].pc \in Awaiting}

\* The step is a click on "Mint NFT": only handleMint adds an invocation.
Submitted == Len(runs') = Len(runs) + 1

\* Invocation i settles in this step with the given outcome.
Settles(i, outcome) ==
    /\ runs[i].outcome = "pending"
    /\ runs'[i].outcome = outcome

\* C1: a submit made while publicKey or wallet is absent, or while name,
\* symbol or description is empty or image is null, issues no external call,
\* reports exactly one error notification, and changes nothing: the
\* submitting flag is false before and after, and the form fields and the
\* stored result links are unchanged.
C1_InvalidSubmitFailsFast ==
    [][(/\ Submitted
        /\ \/ ~publicKey
           \/ ~wallet
           \/ name = ""
           \/ symbol = ""
           \/ description = ""
           \/ image = null)
       => LET r == runs'[Len(runs')] IN
            /\ r.calls = <<>>
            /\ \A i \in DOMAIN runs : runs'[i].calls = runs[i].calls
            /\ Len(r.toasts) = 1
            /\ r.toasts[1] \in {ToastWalletNotConnected, ToastMissingInformation}
            /\ r.toasts[1].variant = "destructive"
            /\ r.pc = "done"
            /\ ~isMinting
            /\ ~isMinting'
            /\ UNCHANGED <<formVars, resultVars>>]_vars

\* Both early returns have been taken.
C1_Witness ==
    \E i, j \in DOMAIN runs :
        /\ runs[i].outcome = "rejected"
        /\ runs[i].toasts = <<ToastWalletNotConnected>>
        /\ runs[j].outcome = "rejected"
        /\ runs[j].toasts = <<ToastMissingInformation>>

\* The call an invocation waits for at each position.
PcAfter(n) ==
    CASE n = 1 -> "awaitImage"
      [] n = 2 -> "awaitMetadata"
      [] n = 3 -> "awaitTx"
      [] OTHER -> "none"

CallOrder(r) ==
    /\ Len(r.calls) <= 3
    /\ \A k \in DOMAIN r.calls :
          /\ k = 1 => r.calls[k].kind = "pinFileToIPFS"
          /\ k = 2 => r.calls[k].kind = "pinJSONToIPFS"
          /\ k = 3 => r.calls[k].kind \in OnChain
    /\ r.pc \in Awaiting => r.pc = PcAfter(Len(r.calls))
    /\ r.outcome = "success" =>
          /\ Len(r.calls) = 3
          /\ r.calls[1].kind = "pinFileToIPFS"
          /\ r.calls[2].kind = "pinJSONToIPFS"
          /\ r.calls[3].kind \in OnChain

\* C2: the external calls of an invocation are a prefix of <image upload,
\* metadata upload, on-chain submission>; a call is issued only in the step
\* in which the previous call of the same invocation returned successfully;
\* once an invocation has settled (failed or not) it issues no further call;
\* a successful invocation has issued exactly the two uploads and then one
\* on-chain submission.
C2_CallSequence ==
    /\ [](\A i \in DOMAIN runs : CallOrder(runs[i]))
    /\ [][\A i \in DOMAIN runs :
             LET n == Len(runs[i].calls) IN
               /\ Len(runs'[i].calls) \in {n, n + 1}
               /\ SubSeq(runs'[i].calls, 1, n) = runs[i].calls
               /\ Len(runs'[i].calls) = n + 1 =>
                     /\ runs[i].pc = PcAfter(n)
                     /\ runs'[i].outcome = "pending"
                     /\ n = 1 => runs'[i].imageUrl # ""
                     /\ n = 2 => runs'[i].metadataUri # ""
               /\ runs[i].pc = "done" => runs'[i] = runs[i]]_vars

\* One invocation has failed at its second call and another has succeeded.
C2_Witness ==
    \E i, j \in DOMAIN runs :
        /\ runs[i].outcome = "failed"
        /\ Len(runs[i].calls) = 2
        /\ runs[j].outcome = "success"

\* C3: when the image upload, the metadata upload or the on-chain submission
\* of a validated invocation fails, the invocation ends with isMinting false
\* and with exactly one notification, the generic failure message, whichever
\* call failed; it never shows the success notification.
C3_FailureIsGeneric ==
    /\ [](\A i \in DOMAIN runs :
             runs[i].outcome = "failed" =>
                /\ Len(runs[i].calls) \in 1 .. 3
                /\ runs[i].toasts = <<ToastError>>
                /\ runs[i].pc = "done")
    /\ [][\A i \in DOMAIN runs :
             Settles(i, "failed")
             => /\ runs[i].pc \in Awaiting
                /\ runs[i].toasts = <<>>
                /\ runs'[i].toasts = <<ToastError>>
                /\ runs'[i].calls = runs[i].calls
                /\ ~isMinting']_vars

\* Two invocations have failed, one at the image upload and one at the
\* on-chain submission.
C3_Witness ==
    \E i, j \in DOMAIN runs :
        /\ runs[i].outcome = "failed"
        /\ Len(runs[i].calls) = 1
        /\ runs[j].outcome = "failed"
        /\ Len(runs[j].calls) = 3
        /\ ~isMinting

\* C4: at most one handleMint invocation is between setIsMinting(true) and
\* setIsMinting(false), and the flag is true exactly while there is one.
C4_OneInFlight ==
    /\ Cardinality(InFlight) <= 1
    /\ isMinting <=> InFlight # {}

\* An invocation is in flight while the form is complete and the wallet
\* connected: only the flag keeps the button from being clicked again.
C4_Witness ==
    /\ InFlight # {}
    /\ Len(runs) < MaxMints
    /\ Validate = "ok"

\* C5: an invocation that reaches the on-chain step issues exactly one
\* creation call, create (mpl-core) when useCore was true in the render of
\* its click and createNft (mpl-token-metadata) when it was false, whatever
\* the flag is set to while the invocation is in flight; an invocation that
\* has not reached the step has issued none.  So two invocations submitted
\* with different flag values use different paths.
C5_OnePathByFlag ==
    \A i \in DOMAIN runs :
        LET r == runs[i]
            chain == {k \in DOMAIN r.calls : r.calls[k].kind \in OnChain}
        IN  /\ (r.pc = "awaitTx" \/ r.outcome = "success") =>
                  Cardinality(chain) = 1
            /\ Cardinality(chain) <= 1
            /\ \A k \in chain :
                  /\ r.useCore => /\ r.calls[k].kind = "create"
                                  /\ r.calls[k].plugin = "mplCore"
                  /\ ~r.useCore => /\ r.calls[k].kind = "createNft"
                                   /\ r.calls[k].plugin = "mplTokenMetadata"
            /\ \A j \in DOMAIN runs :
                  \A k \in chain :
                     \A m \in DOMAIN runs[j].calls :
                        (runs[j].calls[m].kind \in OnChain
                         /\ runs[j].useCore # r.useCore)
                        => runs[j].calls[m].kind # r.calls[k].kind

\* Two invocations submitted with different flag values have both reached
\* the on-chain step, and the flag was toggled while the second was in
\* flight.
C5_Witness ==
    \E i, j \in DOMAIN runs :
        /\ i < j
        /\ Len(runs[i].calls) = 3
        /\ Len(runs[j].calls) = 3
        /\ runs[i].useCore # runs[j].useCore
        /\ runs[j].pc = "awaitTx"
        /\ useCore # runs[j].useCore

\* The attributes a metadata document carries: none when it has no such key.
DocAttributes(doc) ==
    IF "attributes" \in DOMAIN doc THEN doc.attributes ELSE <<>>

\* C6: the metadata document an invocation uploads holds the name,
\* description, symbol and attributes of the form as it was at the click,
\* and as image the gateway URL of the content identifier that the image
\* upload of the same invocation returned; the document uploaded is the one
\* built.
C6_MetadataFromForm ==
    \A i \in DOMAIN runs :
        runs[i].metadata # <<>> =>
            LET r == runs[i]
                doc == r.metadata[1]
            IN  /\ doc.name = r.name
                /\ doc.description = r.description
                /\ doc.symbol = r.symbol
                /\ DocAttributes(doc) = r.attributes
                /\ doc.image = r.imageUrl
                /\ r.calls[1].kind = "pinFileToIPFS"
                /\ doc.image = GatewayUrl(IpfsHash(i, 1))
                /\ r.calls[2].kind = "pinJSONToIPFS"
                /\ r.calls[2].body = doc

\* C7: the step in which an invocation succeeds leaves name, symbol and
\* description empty, image null and isMinting false, whatever the fields
\* held before the step; the step in which an invocation fails leaves the
\* four fields as they were.
C7_SuccessClearsForm ==
    [][\A i \in DOMAIN runs :
          /\ Settles(i, "success") =>
                /\ name' = ""
                /\ symbol' = ""
                /\ description' = ""
                /\ image' = null
                /\ ~isMinting'
          /\ Settles(i, "failed") => UNCHANGED formVars]_vars

\* An invocation has succeeded and the form is empty; another has failed
\* before it.
C7_Witness ==
    \E i, j \in DOMAIN runs :
        /\ i < j
        /\ runs[i].outcome = "failed"
        /\ runs[j].outcome = "success"
        /\ name = ""
        /\ symbol = ""
        /\ description = ""
        /\ image = null
        /\ ~isMinting

\* C8: Idle -> Submitting -> {Success, Failed} -> Idle.  When every awaited
\* call returns or throws, a state with an invocation in flight (one that
\* passed validation) leads to a state in which isMinting is false and every
\* invocation made so far has settled, as success or failed unless
\* validation rejected it; isMinting becomes true only by a click that
\* passes validation and false only in the step in which the invocation in
\* flight settles as success or failed; an invocation's outcome changes only
\* from pending to success or failed; and while isMinting is true the
\* "Mint NFT" button is disabled.
C8_SubmitStateMachine ==
    /\ (InFlight # {})
          ~> (/\ ~isMinting
              /\ \A i \in DOMAIN runs :
                    runs[i].outcome \in {"success", "failed", "rejected"})
    /\ [][/\ (~isMinting /\ isMinting') =>
                /\ Submitted
                /\ Validate = "ok"
                /\ runs'[Len(runs')].pc = "awaitImage"
          /\ (isMinting /\ ~isMinting') =>
                \E i \in DOMAIN runs :
                    /\ runs[i].pc \in Awaiting
                    /\ Settles(i, "success") \/ Settles(i, "failed")
          /\ \A i \in DOMAIN runs :
                runs'[i].outcome # runs[i].outcome =>
                    /\ runs[i].pc \in Awaiting
                    /\ Settles(i, "success") \/ Settles(i, "failed")
                    /\ isMinting
                    /\ ~isMinting'
          /\ Submitted =>
                /\ ~isMinting
                /\ runs'[Len(runs')].outcome \in {"pending", "rejected"}
                /\ runs'[Len(runs')].outcome = "pending" <=> isMinting']_vars
    /\ [](isMinting => MintDisabled)

\* After a failed invocation the form is idle again and a second invocation
\* is in flight.
C8_Witness ==
    \E i, j \in DOMAIN runs :
        /\ i < j
        /\ runs[i].outcome = "failed"
        /\ runs[j].pc \in Awaiting
        /\ isMinting
        /\ MintDisabled

\* C9: removing row i of a list s (0 <= i < length(s)) gives the list of
\* length(s) - 1 rows that is s without its i-th row, the others unchanged
\* and in their order; adding gives s followed by the one row
\* {trait_type: "", value: ""}.
C9_AddRemoveAttribute ==
    LET s == lastOp.before
        i == lastOp.index
    IN  /\ lastOp.op = "remove" =>
              /\ i \in 0 .. Len(s) - 1
              /\ Len(attributes) = Len(s) - 1
              /\ \A j \in 1 .. i : attributes[j] = s[j]
              /\ \A j \in i + 1 .. Len(s) - 1 : attributes[j] = s[j + 1]
        /\ lastOp.op = "add" =>
              /\ Len(attributes) = Len(s) + 1
              /\ \A j \in 1 .. Len(s) : attributes[j] = s[j]
              /\ attributes[Len(s) + 1].trait_type = ""
              /\ attributes[Len(s) + 1].value = ""
              /\ DOMAIN attributes[Len(s) + 1] = AttrKeys

\* The middle row of a list of three different rows has just been removed.
C9_Witness ==
    /\ lastOp.op = "remove"
    /\ lastOp.index = 1
    /\ Len(lastOp.before) = 3
    /\ lastOp.before[1] # lastOp.before[2]
    /\ lastOp.before[2] # lastOp.before[3]
    /\ lastOp.before[1] # lastOp.before[3]
    /\ attributes = <<lastOp.before[1], lastOp.before[3]>>

\* C10: when no invocation is in flight and a result is displayed
\* (transactionLink is not empty), transactionLink, imageUrl and metadataUri
\* are those of one and the same successful invocation.
C10_ResultOfOneMint ==
    (transactionLink # "" /\ ~isMinting) =>
        \E i \in DOMAIN runs :
            /\ runs[i].outcome = "success"
            /\ transactionLink = runs[i].transactionLink
            /\ imageUrl = runs[i].imageUrl
            /\ metadataUri = runs[i].metadataUri

=============================================================================
